---- MODULE Spec2Model ----
(***************************************************************************)
(* A model of pathway's expression desugaring layer                       *)
(* (python/pathway/internals/desugaring.py): the visitor-based rewriters  *)
(* (ThisDesugaring, TableSubstitutionDesugaring,                          *)
(* TableReplacementWithNoneDesugaring, TableCallbackDesugaring and its    *)
(* two flavors), the argument normalizer combine_args_kwargs and the call *)
(* interception wrapper built by desugar.                                 *)
(***************************************************************************)
EXTENDS Integers, Sequences, FiniteSets, TLC

VARIABLES
    pc,             \* position of the running operation
    input,          \* the arguments the running operation was called with
    output,         \* what the operation returned, raised or forwarded
    substitutions   \* the _substitution dictionaries that outlive a call

vars == <<pc, input, output, substitutions>>

(***************************************************************************)
(* Bounds of the model.                                                   *)
(***************************************************************************)
MaxGuards == 2      \* guards of a RequireExpression drawn as input
MaxPositional == 2  \* positional expressions of one combine_args_kwargs call
MaxKeywords == 2    \* keyword entries of one call
MaxCallArgs == 2    \* positional arguments of a ColumnCallExpression

(***************************************************************************)
(* Relations, scope tokens and column expressions (spec section 3).       *)
(***************************************************************************)
Table(id) == [kind |-> "table", id |-> id]
This(token) == [kind |-> "this", token |-> token]

IsThis(t) == t.kind = "this"

ColumnReference(table, name) == [kind |-> "ref", table |-> table, name |-> name]
ColumnConstExpression(val) == [kind |-> "const", val |-> val]
ColumnIxExpression(column_expression, keys_expression, optional) ==
    [kind |-> "ix", column_expression |-> column_expression,
     keys_expression |-> keys_expression, optional |-> optional]
RequireExpression(val, args) == [kind |-> "require", val |-> val, args |-> args]
ReducerExpression(reducer, args) ==
    [kind |-> "reducer", reducer |-> reducer, args |-> args]
MethodCallExpression(op_name, args) ==
    [kind |-> "method_call", op_name |-> op_name, args |-> args]
ColumnCallExpression(col_expr, args) ==
    [kind |-> "call", col_expr |-> col_expr, args |-> args]
PointerExpression(table, args, optional) ==
    [kind |-> "pointer", table |-> table, args |-> args, optional |-> optional]

NoneConst == ColumnConstExpression("None")

(***************************************************************************)
(* The result of one eval_expression call: the rewritten expression, the  *)
(* number of eval_expression calls made to produce it, the callback       *)
(* invocations made on the way, and whether the call raised.              *)
(***************************************************************************)
Returned(out, visits, ops) ==
    [out |-> out, visits |-> visits, ops |-> ops, err |-> FALSE]
Raised(visits, ops) ==
    [out |-> "raised", visits |-> visits, ops |-> ops, err |-> TRUE]

RECURSIVE eval_expression(_, _)
RECURSIVE EvalAll(_, _)

\* [self.eval_expression(arg) for arg in es]: left to right, stopping at
\* the first call that raises.
EvalAll(self, es) ==
    IF es = <<>>
    THEN [outs |-> <<>>, visits |-> 0, ops |-> <<>>, err |-> FALSE]
    ELSE LET h == eval_expression(self, Head(es))
         IN IF h.err
            THEN [outs |-> <<>>, visits |-> h.visits, ops |-> h.ops, err |-> TRUE]
            ELSE LET t == EvalAll(self, Tail(es))
                 IN [outs |-> <<h.out>> \o t.outs,
                     visits |-> h.visits + t.visits,
                     ops |-> h.ops \o t.ops,
                     err |-> t.err]

(***************************************************************************)
(* IdentityTransform: the default traversal. Children are rewritten       *)
(* first, then the node is rebuilt from the rewritten children.           *)
(***************************************************************************)
IdentityTransform_eval_column_val(self, expression) ==
    Returned(ColumnReference(expression.table, expression.name), 0, <<>>)

IdentityTransform_eval_const(self, expression) ==
    Returned(ColumnConstExpression(expression.val), 0, <<>>)

IdentityTransform_eval_method_call(self, expression) ==
    LET args == EvalAll(self, expression.args)
    IN IF args.err THEN Raised(args.visits, args.ops)
       ELSE Returned(MethodCallExpression(expression.op_name, args.outs),
                     args.visits, args.ops)

IdentityTransform_eval_ix(self, expression) ==
    LET rs == EvalAll(self, <<expression.column_expression,
                              expression.keys_expression>>)
    IN IF rs.err THEN Raised(rs.visits, rs.ops)
       ELSE Returned(ColumnIxExpression(rs.outs[1], rs.outs[2],
                                        expression.optional),
                     rs.visits, rs.ops)

IdentityTransform_eval_require(self, expression) ==
    LET rs == EvalAll(self, <<expression.val>> \o expression.args)
    IN IF rs.err THEN Raised(rs.visits, rs.ops)
       ELSE Returned(RequireExpression(Head(rs.outs), Tail(rs.outs)),
                     rs.visits, rs.ops)

IdentityTransform_eval_reducer(self, expression) ==
    LET args == EvalAll(self, expression.args)
    IN IF args.err THEN Raised(args.visits, args.ops)
       ELSE Returned(ReducerExpression(expression.reducer, args.outs),
                     args.visits, args.ops)

IdentityTransform_eval_call(self, expression) ==
    LET rs == EvalAll(self, expression.args \o <<expression.col_expr>>)
        n == Len(expression.args)
    IN IF rs.err THEN Raised(rs.visits, rs.ops)
       ELSE Returned(ColumnCallExpression(rs.outs[n + 1], SubSeq(rs.outs, 1, n)),
                     rs.visits, rs.ops)

IdentityTransform_eval_pointer(self, expression) ==
    LET args == EvalAll(self, expression.args)
    IN IF args.err THEN Raised(args.visits, args.ops)
       ELSE Returned(PointerExpression(expression.table, args.outs,
                                       expression.optional),
                     args.visits, args.ops)

(***************************************************************************)
(* TableReplacementWithNoneDesugaring: "Replaces all references to        *)
(* `table` with None."                                                    *)
(***************************************************************************)
TableReplacementWithNoneDesugaring(table) ==
    [cls |-> "TableReplacementWithNoneDesugaring", table |-> table]

\* Variants of eval_column_val: one forgets the replacement, one drops the
\* ownership test.
eval_column_val_KeepsReference(self, expression) ==
    IdentityTransform_eval_column_val(self, expression)

eval_column_val_AnyTable(self, expression) ==
    Returned(ColumnConstExpression("None"), 0, <<>>)

TableReplacementWithNoneDesugaring_eval_column_val(self, expression) ==
    IF expression.table = self.table
    THEN Returned(ColumnConstExpression("None"), 0, <<>>)
    ELSE IdentityTransform_eval_column_val(self, expression)

\* A variant of eval_ix that rebuilds the lookup as a non-optional one.
eval_ix_DropsOptional(self, expression) ==
    LET keys_expression == eval_expression(self, expression.keys_expression)
    IN Returned(ColumnIxExpression(expression.column_expression,
                                   keys_expression.out, FALSE),
                keys_expression.visits, keys_expression.ops)

\* The base goes through super().eval_column_val, the keys through
\* self.eval_expression.
TableReplacementWithNoneDesugaring_eval_ix(self, expression) ==
    LET column_expression ==
            IdentityTransform_eval_column_val(self, expression.column_expression)
        keys_expression == eval_expression(self, expression.keys_expression)
    IN IF keys_expression.err
       THEN Raised(keys_expression.visits, keys_expression.ops)
       ELSE Returned(ColumnIxExpression(column_expression.out,
                                        keys_expression.out,
                                        expression.optional),
                     keys_expression.visits, keys_expression.ops)

\* The scan of the rewritten guards: TRUE when one of them is a
\* ColumnConstExpression whose value is None.
HasNoneConst(args) ==
    \E i \in DOMAIN args : args[i].kind = "const" /\ args[i].val = "None"

\* A variant of eval_require that stops rewriting the guards at the first
\* one that comes back as a null constant.
RECURSIVE EvalUntilNone(_, _)
EvalUntilNone(self, es) ==
    IF es = <<>>
    THEN [outs |-> <<>>, visits |-> 0, ops |-> <<>>, err |-> FALSE]
    ELSE LET h == eval_expression(self, Head(es))
         IN IF h.err \/ h.out = NoneConst
            THEN [outs |-> <<h.out>>, visits |-> h.visits, ops |-> h.ops,
                  err |-> h.err]
            ELSE LET t == EvalUntilNone(self, Tail(es))
                 IN [outs |-> <<h.out>> \o t.outs,
                     visits |-> h.visits + t.visits,
                     ops |-> h.ops \o t.ops,
                     err |-> t.err]

eval_require_EarlyExit(self, expression) ==
    LET val == eval_expression(self, expression.val)
        args == EvalUntilNone(self, expression.args)
    IN IF HasNoneConst(args.outs)
       THEN Returned(ColumnConstExpression("None"),
                     val.visits + args.visits, val.ops \o args.ops)
       ELSE Returned(RequireExpression(val.out, args.outs),
                     val.visits + args.visits, val.ops \o args.ops)

TableReplacementWithNoneDesugaring_eval_require(self, expression) ==
    LET val == eval_expression(self, expression.val)
        args == EvalAll(self, expression.args)
    IN IF val.err THEN Raised(val.visits, val.ops)
       ELSE IF args.err
       THEN Raised(val.visits + args.visits, val.ops \o args.ops)
       ELSE IF HasNoneConst(args.outs)
       THEN Returned(ColumnConstExpression("None"),
                     val.visits + args.visits, val.ops \o args.ops)
       ELSE Returned(RequireExpression(val.out, args.outs),
                     val.visits + args.visits, val.ops \o args.ops)

(***************************************************************************)
(* DesugaringTransform: the base of the desugaring rewriters; it adds     *)
(* nothing to the default traversal.                                      *)
(***************************************************************************)
DesugaringTransform == [cls |-> "DesugaringTransform"]

(***************************************************************************)
(* ThisDesugaring: resolves scope tokens through a substitution, a        *)
(* dictionary from tokens to relations.                                   *)
(***************************************************************************)
ThisDesugaring(substitution) ==
    [cls |-> "ThisDesugaring", substitution |-> substitution]

\* ThisMetaclass._eval_substitution: the relation bound to the token; a
\* token the substitution does not bind raises.
eval_substitution(table, substitution) ==
    IF table.token \in DOMAIN substitution
    THEN [table |-> substitution[table.token], err |-> FALSE]
    ELSE [table |-> table, err |-> TRUE]

\* A variant of _desugar_table that lets an unbound token through.
desugar_table_KeepsUnbound(self, table) ==
    IF IsThis(table) /\ table.token \in DOMAIN self.substitution
    THEN [table |-> self.substitution[table.token], err |-> FALSE]
    ELSE [table |-> table, err |-> FALSE]

ThisDesugaring_desugar_table(self, table) ==
    IF IsThis(table)
    THEN eval_substitution(table, self.substitution)
    ELSE [table |-> table, err |-> FALSE]

ThisDesugaring_eval_column_val(self, expression) ==
    LET table == ThisDesugaring_desugar_table(self, expression.table)
    IN IF table.err THEN Raised(0, <<>>)
       ELSE Returned(ColumnReference(table.table, expression.name), 0, <<>>)

ThisDesugaring_eval_pointer(self, expression) ==
    LET args == EvalAll(self, expression.args)
        desugared_table == ThisDesugaring_desugar_table(self, expression.table)
    IN IF args.err \/ desugared_table.err THEN Raised(args.visits, args.ops)
       ELSE Returned(PointerExpression(desugared_table.table, args.outs,
                                       expression.optional),
                     args.visits, args.ops)

(***************************************************************************)
(* TableSubstitutionDesugaring: "Maps all references to tables according  *)
(* to `table_substitution` dictionary."                                   *)
(***************************************************************************)
TableSubstitutionDesugaring(table_substitution) ==
    [cls |-> "TableSubstitutionDesugaring",
     table_substitution |-> table_substitution]

TableSubstitutionDesugaring_eval_column_val(self, expression) ==
    IF expression.table \in DOMAIN self.table_substitution
    THEN Returned(ColumnReference(self.table_substitution[expression.table],
                                  expression.name), 0, <<>>)
    ELSE IdentityTransform_eval_column_val(self, expression)

(***************************************************************************)
(* TableCallbackDesugaring and its two flavors: an inline method call is  *)
(* compiled into a generated row transformer fed by one select (or        *)
(* reduce) on the relation.                                               *)
(***************************************************************************)
TableSelectDesugaring(table_like) ==
    [cls |-> "TableSelectDesugaring", table_like |-> table_like]
TableReduceDesugaring(table_like) ==
    [cls |-> "TableReduceDesugaring", table_like |-> table_like]

\* A GroupedJoinable and the relation it groups.
Grouped(id, joinable_to_group) ==
    [kind |-> "grouped", id |-> id, joinable_to_group |-> joinable_to_group]

\* The relation an operation builds: known by what built it.
GeneratedTable(generated_by) == [kind |-> "table", generated_by |-> generated_by]

\* self.callback(**kwargs): table_like.select or table_like.reduce.
callback(self, kwargs) ==
    [op |-> IF self.cls = "TableReduceDesugaring" THEN "reduce" ELSE "select",
     table_like |-> self.table_like,
     kwargs |-> kwargs]

\* type_interpreter.eval_type(expression)
eval_type(expression) == [dtype_of |-> expression]

\* RowTransformer.method_call_transformer(n, dtype)
method_call_transformer(n, dtype) == [arity |-> n, dtype |-> dtype]

\* f"arg_{index}" for the index-th argument, counted from 0.
ArgName(index) == "arg_" \o ToString(index)

\* {f"arg_{index}": ... for index, arg in enumerate(args)} with the callee
\* added as method.
CallKwargs(col_expr, outs) ==
    [name \in {"method"} \cup {ArgName(i - 1) : i \in DOMAIN outs} |->
        IF name = "method" THEN col_expr
        ELSE outs[CHOOSE i \in DOMAIN outs : ArgName(i - 1) = name]]

\* A variant of eval_call that sizes the row transformer with the callee
\* counted in.
eval_call_ArityCountsCallee(self, expression) ==
    LET args == EvalAll(self, expression.args)
        kwargs == CallKwargs(expression.col_expr, args.outs)
        invocation == callback(self, kwargs)
    IN Returned(ColumnReference(GeneratedTable(
                    [transformer |-> method_call_transformer(
                                        Cardinality(DOMAIN kwargs),
                                        eval_type(expression)),
                     input |-> GeneratedTable(invocation)]), "result"),
                args.visits, args.ops \o <<invocation>>)

TableCallbackDesugaring_eval_call(self, expression) ==
    LET args == EvalAll(self, expression.args)
        kwargs == CallKwargs(expression.col_expr, args.outs)
        transformer == method_call_transformer(Len(args.outs),
                                               eval_type(expression))
        invocation == callback(self, kwargs)
        method_call_input == GeneratedTable(invocation)
        table == GeneratedTable([transformer |-> transformer,
                                 input |-> method_call_input])
    IN IF args.err THEN Raised(args.visits, args.ops)
       ELSE Returned(ColumnReference(table, "result"),
                     args.visits, args.ops \o <<invocation>>)

TableReduceDesugaring_eval_reducer(self, expression) ==
    LET select_desugar == TableSelectDesugaring(self.table_like.joinable_to_group)
        args == EvalAll(select_desugar, expression.args)
    IN IF args.err THEN Raised(args.visits, args.ops)
       ELSE Returned(ReducerExpression(expression.reducer, args.outs),
                     args.visits, args.ops)

(***************************************************************************)
(* ExpressionVisitor.eval_expression: dispatch on the node kind to the    *)
(* transform's own method when it has one, to IdentityTransform's         *)
(* otherwise. Each call counts as one visit.                              *)
(***************************************************************************)
Dispatch(self, expression) ==
    CASE expression.kind = "ref" ->
            CASE self.cls = "TableReplacementWithNoneDesugaring" ->
                    TableReplacementWithNoneDesugaring_eval_column_val(self, expression)
              [] self.cls = "ThisDesugaring" ->
                    ThisDesugaring_eval_column_val(self, expression)
              [] self.cls = "TableSubstitutionDesugaring" ->
                    TableSubstitutionDesugaring_eval_column_val(self, expression)
              [] OTHER -> IdentityTransform_eval_column_val(self, expression)
      [] expression.kind = "const" ->
            IdentityTransform_eval_const(self, expression)
      [] expression.kind = "method_call" ->
            IdentityTransform_eval_method_call(self, expression)
      [] expression.kind = "ix" ->
            IF self.cls = "TableReplacementWithNoneDesugaring"
            THEN TableReplacementWithNoneDesugaring_eval_ix(self, expression)
            ELSE IdentityTransform_eval_ix(self, expression)
      [] expression.kind = "require" ->
            IF self.cls = "TableReplacementWithNoneDesugaring"
            THEN TableReplacementWithNoneDesugaring_eval_require(self, expression)
            ELSE IdentityTransform_eval_require(self, expression)
      [] expression.kind = "reducer" ->
            IF self.cls = "TableReduceDesugaring"
            THEN TableReduceDesugaring_eval_reducer(self, expression)
            ELSE IdentityTransform_eval_reducer(self, expression)
      [] expression.kind = "call" ->
            IF self.cls \in {"TableSelectDesugaring", "TableReduceDesugaring"}
            THEN TableCallbackDesugaring_eval_call(self, expression)
            ELSE IdentityTransform_eval_call(self, expression)
      [] expression.kind = "pointer" ->
            IF self.cls = "ThisDesugaring"
            THEN ThisDesugaring_eval_pointer(self, expression)
            ELSE IdentityTransform_eval_pointer(self, expression)
      [] OTHER ->
            \* DesugaringTransform.eval_any: anything else is returned as is
            Returned(expression, 0, <<>>)

eval_expression(self, expression) ==
    LET r == Dispatch(self, expression)
    IN [r EXCEPT !.visits = @ + 1]

(***************************************************************************)
(* Inputs of the null-flooding specification.                             *)
(***************************************************************************)
Tables == {Table("T1"), Table("T2")}
ColumnNames == {"x"}

References == {ColumnReference(t, n) : t \in Tables, n \in ColumnNames}
Leaves == References \cup {NoneConst, ColumnConstExpression("1")}

SeqsUpTo(S, n) == UNION {[1..k -> S] : k \in 1..n}

\* One level of structure over the leaves.
Simple ==
    Leaves
    \cup {MethodCallExpression("num.round", <<l, r>>) : l \in References, r \in Leaves}
    \cup {ColumnIxExpression(b, k, o) : b \in References, k \in Leaves, o \in BOOLEAN}
    \cup {RequireExpression(v, g) : v \in References, g \in SeqsUpTo(Leaves, MaxGuards)}

\* Guard lists with one structured guard among leaves.
MixedGuards ==
    UNION {{[g EXCEPT ![i] = s] : g \in [1..k -> Leaves], i \in 1..k, s \in Simple}
           : k \in 1..MaxGuards}

FloodExpressions ==
    Simple
    \cup {RequireExpression(v, g) : v \in References, g \in MixedGuards}
    \cup {RequireExpression(v, <<l>>) : v \in Simple, l \in References}
    \cup {ColumnIxExpression(b, k, o) : b \in References, k \in Simple, o \in BOOLEAN}
    \cup {MethodCallExpression("num.abs", <<s>>) : s \in Simple}

NoOutput == [out |-> "none", visits |-> 0, ops |-> <<>>, err |-> FALSE]
NoSubstitutions == [d \in {"class"} |-> <<>>]

(***************************************************************************)
(* Null-flooding: TableReplacementWithNoneDesugaring(table) applied to an *)
(* expression.                                                            *)
(***************************************************************************)
InitNone ==
    /\ pc = "built"
    /\ input \in [table : Tables, expression : FloodExpressions]
    /\ output = NoOutput
    /\ substitutions = NoSubstitutions

ReplaceWithNone ==
    /\ pc = "built"
    /\ output' = eval_expression(TableReplacementWithNoneDesugaring(input.table),
                                 input.expression)
    /\ pc' = "rewritten"
    /\ UNCHANGED <<input, substitutions>>

NextNone == ReplaceWithNone

SpecNone == InitNone /\ [][NextNone]_vars

(***************************************************************************)
(* Properties of null-flooding, checked under SpecNone.                   *)
(***************************************************************************)
Flooding == TableReplacementWithNoneDesugaring(input.table)

\* Some column reference owned by table occurs in expression.
RECURSIVE ContainsReferenceTo(_, _)
ContainsReferenceTo(table, expression) ==
    CASE expression.kind = "ref" -> expression.table = table
      [] expression.kind = "const" -> FALSE
      [] expression.kind = "ix" ->
            \/ ContainsReferenceTo(table, expression.column_expression)
            \/ ContainsReferenceTo(table, expression.keys_expression)
      [] expression.kind = "require" ->
            \/ ContainsReferenceTo(table, expression.val)
            \/ \E i \in DOMAIN expression.args :
                   ContainsReferenceTo(table, expression.args[i])
      [] OTHER ->
            \E i \in DOMAIN expression.args :
                ContainsReferenceTo(table, expression.args[i])

\* Some column reference owned by table occurs in expression elsewhere
\* than as the base of an indexed lookup.
RECURSIVE ContainsFreeReferenceTo(_, _)
ContainsFreeReferenceTo(table, expression) ==
    CASE expression.kind = "ref" -> expression.table = table
      [] expression.kind = "const" -> FALSE
      [] expression.kind = "ix" ->
            ContainsFreeReferenceTo(table, expression.keys_expression)
      [] expression.kind = "require" ->
            \/ ContainsFreeReferenceTo(table, expression.val)
            \/ \E i \in DOMAIN expression.args :
                   ContainsFreeReferenceTo(table, expression.args[i])
      [] OTHER ->
            \E i \in DOMAIN expression.args :
                ContainsFreeReferenceTo(table, expression.args[i])

\* A guard that is a column reference owned by table, a literal null
\* constant, or a RequireExpression with such a guard.
RECURSIVE CollapsingGuard(_, _)
CollapsingGuard(table, guard) ==
    \/ guard = NoneConst
    \/ guard.kind = "ref" /\ guard.table = table
    \/ /\ guard.kind = "require"
       /\ \E i \in DOMAIN guard.args : CollapsingGuard(table, guard.args[i])

\* Some RequireExpression inside expression has a literal null constant
\* among its guards.
RECURSIVE HasNullGuard(_)
HasNullGuard(expression) ==
    CASE expression.kind \in {"ref", "const"} -> FALSE
      [] expression.kind = "ix" ->
            \/ HasNullGuard(expression.column_expression)
            \/ HasNullGuard(expression.keys_expression)
      [] expression.kind = "require" ->
            \/ \E i \in DOMAIN expression.args : expression.args[i] = NoneConst
            \/ HasNullGuard(expression.val)
            \/ \E i \in DOMAIN expression.args : HasNullGuard(expression.args[i])
      [] OTHER ->
            \E i \in DOMAIN expression.args : HasNullGuard(expression.args[i])

RECURSIVE SumVisits(_)
SumVisits(rs) == IF rs = <<>> THEN 0 ELSE Head(rs).visits + SumVisits(Tail(rs))

RewrittenGuards ==
    [i \in DOMAIN input.expression.args |->
        eval_expression(Flooding, input.expression.args[i])]

\* C2: null-propagation law. For a flooded RequireExpression(value, g1..gn):
\* when the rewriting of some guard is a null constant the result is a null
\* constant whatever the value and the other guards are; otherwise it is the
\* RequireExpression over the rewritten value and the rewritten guards in
\* order; in both cases every guard was rewritten (the calls made are those
\* of the value and of all n guards).
C2_NullPropagation ==
    (pc = "rewritten" /\ input.expression.kind = "require") =>
        LET val == eval_expression(Flooding, input.expression.val)
            guards == RewrittenGuards
        IN /\ (\E i \in DOMAIN guards : guards[i].out = NoneConst)
                  => output.out = NoneConst
           /\ (\A i \in DOMAIN guards : guards[i].out # NoneConst)
                  => output.out = RequireExpression(val.out,
                                      [i \in DOMAIN guards |-> guards[i].out])
           /\ output.visits = 1 + val.visits + SumVisits(guards)

\* Reached: a two-guard RequireExpression whose first guard is flooded to
\* null while the second guard is a compound expression that is rewritten too.
C2_Witness ==
    /\ pc = "rewritten"
    /\ input.expression.kind = "require"
    /\ Len(input.expression.args) = 2
    /\ input.expression.args[1] = ColumnReference(input.table, "x")
    /\ input.expression.args[2].kind = "method_call"
    /\ ContainsReferenceTo(input.table, input.expression.args[2])
    /\ input.expression.val # NoneConst
    /\ output.out = NoneConst
    /\ output.visits = 6

\* C3 as stated: a RequireExpression with a guard that is, or contains, a
\* column reference owned by the flooded table collapses to a null constant.
C3_Original ==
    (/\ pc = "rewritten"
     /\ input.expression.kind = "require"
     /\ \E i \in DOMAIN input.expression.args :
            ContainsReferenceTo(input.table, input.expression.args[i]))
        => output.out = NoneConst

\* C3 amended: a flooded RequireExpression collapses to a null constant
\* exactly when one of its guards is a column reference owned by the table,
\* a literal null constant, or a RequireExpression that collapses in the
\* same way; a compound guard that only contains such a reference is
\* rewritten in place and the RequireExpression stays.
C3_CollapseOnDirectGuard ==
    (pc = "rewritten" /\ input.expression.kind = "require") =>
        /\ (\E i \in DOMAIN input.expression.args :
                CollapsingGuard(input.table, input.expression.args[i]))
              => output.out = NoneConst
        /\ (\A i \in DOMAIN input.expression.args :
                ~CollapsingGuard(input.table, input.expression.args[i]))
              => /\ output.out.kind = "require"
                 /\ Len(output.out.args) = Len(input.expression.args)

\* Reached: a RequireExpression collapsed through a nested RequireExpression
\* guard whose own guard is owned by the table.
C3_Witness ==
    /\ pc = "rewritten"
    /\ input.expression.kind = "require"
    /\ \E i \in DOMAIN input.expression.args :
          /\ input.expression.args[i].kind = "require"
          /\ input.expression.args[i].args = <<ColumnReference(input.table, "x")>>
    /\ \A i \in DOMAIN input.expression.args :
          input.expression.args[i] # NoneConst
          /\ input.expression.args[i] # ColumnReference(input.table, "x")
    /\ output.out = NoneConst

C5_Original ==
    (pc = "rewritten" /\ ~ContainsReferenceTo(input.table, input.expression))
        => output.out = input.expression

\* C5 amended: flooding a table over an expression with no column reference
\* owned by it, and in which no RequireExpression has a literal null
\* constant among its guards, returns a structurally equal expression.
C5_Disjointness ==
    (/\ pc = "rewritten"
     /\ ~ContainsReferenceTo(input.table, input.expression)
     /\ ~HasNullGuard(input.expression))
        => output.out = input.expression

\* Reached: an unchanged RequireExpression over another table's columns
\* whose guards hold an indexed lookup with a literal null key.
C5_Witness ==
    /\ pc = "rewritten"
    /\ input.expression.kind = "require"
    /\ ~ContainsReferenceTo(input.table, input.expression)
    /\ \E i \in DOMAIN input.expression.args :
          /\ input.expression.args[i].kind = "ix"
          /\ input.expression.args[i].keys_expression = NoneConst
    /\ output.out = input.expression

(***************************************************************************)
(* combine_args_kwargs: positional expressions, named by smart_name, and  *)
(* keyword entries merged into one mapping.                               *)
(***************************************************************************)
Literal(val) == [kind |-> "literal", val |-> val]

\* isinstance(expression, expr.ColumnExpression)
IsColumnExpression(value) == value.kind \notin {"literal", "table"}

\* expr.smart_name of the expressions combine_args_kwargs accepts as
\* positional: a reference's own name, a lookup's base column name.
smart_name(expression) ==
    IF expression.kind = "ix"
    THEN expression.column_expression.name
    ELSE expression.name

EmptyDict == [name \in {} |-> NoneConst]

\* A variant of add that stores literal values unwrapped.
add_NoWrap(state, name, expression) ==
    IF expression.kind = "table" THEN [state EXCEPT !.err = "assertion"]
    ELSE IF name \in DOMAIN state.all_args THEN [state EXCEPT !.err = "duplicate"]
    ELSE IF name = "id" THEN [state EXCEPT !.err = "reserved"]
    ELSE [state EXCEPT !.all_args = (name :> expression) @@ @]

\* The nested function add(name, expression) of combine_args_kwargs.
add(state, name, expression) ==
    IF expression.kind = "table" THEN [state EXCEPT !.err = "assertion"]
    ELSE IF name \in DOMAIN state.all_args THEN [state EXCEPT !.err = "duplicate"]
    ELSE IF name = "id" THEN [state EXCEPT !.err = "reserved"]
    ELSE [state EXCEPT !.all_args =
            (name :> (IF IsColumnExpression(expression) THEN expression
                      ELSE ColumnConstExpression(expression.val))) @@ @]

\* The two loops: add is called entry by entry until one call raises.
RECURSIVE AddEach(_, _)
AddEach(state, entries) ==
    IF entries = <<>> \/ state.err # "none"
    THEN state
    ELSE AddEach(add(state, Head(entries)[1], Head(entries)[2]), Tail(entries))

\* The entries in the order combine_args_kwargs processes them.
Entries(args, kwargs) ==
    [i \in DOMAIN args |-> <<smart_name(args[i]), args[i]>>] \o kwargs

combine_args_kwargs(args, kwargs) ==
    AddEach([all_args |-> EmptyDict, err |-> "none"], Entries(args, kwargs))

PositionalInputs ==
    {ColumnReference(Table("T1"), n) : n \in {"x", "y", "id"}}
    \cup {ColumnIxExpression(ColumnReference(Table("T1"), "x"),
                             ColumnReference(Table("T1"), "y"), FALSE)}

KeywordNames == {"x", "z", "id"}
KeywordValues ==
    {ColumnReference(Table("T1"), "y"), Literal("1"), Literal("None"), Table("T2")}

\* Keyword arguments of a call: a dictionary, so the names are distinct.
KeywordInputs ==
    {kw \in {<<>>} \cup SeqsUpTo(KeywordNames \X KeywordValues, MaxKeywords) :
        \A i, j \in DOMAIN kw : i # j => kw[i][1] # kw[j][1]}

InitCombine ==
    /\ pc = "called"
    /\ input \in [args : {<<>>} \cup SeqsUpTo(PositionalInputs, MaxPositional),
                  kwargs : KeywordInputs]
    /\ output = NoOutput
    /\ substitutions = NoSubstitutions

CombineReturns ==
    /\ pc = "called"
    /\ LET r == combine_args_kwargs(input.args, input.kwargs)
       IN /\ r.err = "none"
          /\ output' = r
          /\ pc' = "returned"
    /\ UNCHANGED <<input, substitutions>>

CombineRaises ==
    /\ pc = "called"
    /\ LET r == combine_args_kwargs(input.args, input.kwargs)
       IN /\ r.err # "none"
          /\ output' = [all_args |-> EmptyDict, err |-> r.err]
          /\ pc' = "raised"
    /\ UNCHANGED <<input, substitutions>>

NextCombine == CombineReturns \/ CombineRaises

SpecCombine == InitCombine /\ [][NextCombine]_vars

(***************************************************************************)
(* Properties of combine_args_kwargs, checked under SpecCombine.          *)
(***************************************************************************)
EffectiveNames ==
    LET es == Entries(input.args, input.kwargs)
    IN [i \in DOMAIN es |-> es[i][1]]

EntryValues ==
    LET es == Entries(input.args, input.kwargs)
    IN [i \in DOMAIN es |-> es[i][2]]

\* Every value is an expression or a literal (no relation handle is passed
\* where an expression is expected).
ValuesAreExpressionsOrLiterals ==
    \A i \in DOMAIN EntryValues : EntryValues[i].kind # "table"

NamesDistinct ==
    \A i, j \in DOMAIN EffectiveNames : i # j => EffectiveNames[i] # EffectiveNames[j]

HasReservedName == \E i \in DOMAIN EffectiveNames : EffectiveNames[i] = "id"

\* Entry i is named id or repeats the name of an earlier entry.
Offending(i) ==
    \/ EffectiveNames[i] = "id"
    \/ \E j \in 1..(i - 1) : EffectiveNames[j] = EffectiveNames[i]

Finished == pc \in {"returned", "raised"}

\* What a returned mapping holds: one entry per argument, literals wrapped,
\* expressions as given, never the key id.
MappingAsGiven ==
    /\ pc = "returned"
    /\ Cardinality(DOMAIN output.all_args) = Len(input.args) + Len(input.kwargs)
    /\ \A i \in DOMAIN EffectiveNames :
          /\ EffectiveNames[i] \in DOMAIN output.all_args
          /\ output.all_args[EffectiveNames[i]] =
                IF EntryValues[i].kind = "literal"
                THEN ColumnConstExpression(EntryValues[i].val)
                ELSE EntryValues[i]
    /\ "id" \notin DOMAIN output.all_args

\* C6 as stated: distinct names without id give the n+m mapping; two
\* entries with the same name raise the duplicate-name error; a name id
\* raises the reserved-name error; no mapping is returned on error.
C6_Original ==
    (Finished /\ ValuesAreExpressionsOrLiterals) =>
        /\ (NamesDistinct /\ ~HasReservedName) => MappingAsGiven
        /\ ~NamesDistinct => pc = "raised" /\ output.err = "duplicate"
        /\ HasReservedName => pc = "raised" /\ output.err = "reserved"
        /\ pc = "returned" => "id" \notin DOMAIN output.all_args

\* C6 amended: as stated, except that one call raises one error, that of
\* the first offending entry in processing order (positional entries, then
\* keyword entries): the duplicate-name error when that entry repeats the
\* name of an earlier entry, the reserved-name error when it is named id
\* (id is rejected on its first occurrence, so a repeated id raises the
\* reserved-name error).
C6_CombineArgsKwargs ==
    (Finished /\ ValuesAreExpressionsOrLiterals) =>
        /\ (NamesDistinct /\ ~HasReservedName) => MappingAsGiven
        /\ (~NamesDistinct \/ HasReservedName) =>
              LET first == CHOOSE i \in DOMAIN EffectiveNames :
                               /\ Offending(i)
                               /\ \A j \in 1..(i - 1) : ~Offending(j)
              IN /\ pc = "raised"
                 /\ output.all_args = EmptyDict
                 /\ output.err = IF EffectiveNames[first] = "id"
                                 THEN "reserved" ELSE "duplicate"
        /\ pc = "returned" => "id" \notin DOMAIN output.all_args

\* Reached: a duplicate-name error raised by a keyword that repeats a
\* positional lookup's smart name, with a later keyword named id.
C6_Witness ==
    /\ pc = "raised"
    /\ output.err = "duplicate"
    /\ Len(input.args) = 1
    /\ input.args[1].kind = "ix"
    /\ Len(input.kwargs) = 2
    /\ input.kwargs[1][1] = "x"
    /\ input.kwargs[1][2].kind = "literal"
    /\ input.kwargs[2][1] = "id"

(***************************************************************************)
(* Inline-call desugaring: TableSelectDesugaring on a relation and        *)
(* TableReduceDesugaring on a grouped relation, applied to expressions    *)
(* that hold ColumnCallExpression nodes.                                  *)
(***************************************************************************)
Source == Table("T1")
Group == Grouped("G", Source)

Callee == ColumnReference(Source, "f")

CallLeaves == {ColumnReference(Source, "x"), ColumnConstExpression("1")}

\* Inline calls over leaves.
InnerCalls ==
    {ColumnCallExpression(Callee, a) : a \in {<<>>} \cup SeqsUpTo(CallLeaves, 1)}

CallArguments ==
    CallLeaves
    \cup InnerCalls
    \cup {MethodCallExpression("num.abs", <<a>>) : a \in CallLeaves \cup InnerCalls}
    \cup {ReducerExpression("sum", <<a>>) : a \in CallLeaves \cup InnerCalls}

CallExpressions ==
    {ColumnCallExpression(Callee, a) :
        a \in {<<>>} \cup SeqsUpTo(CallArguments, MaxCallArgs)}
    \cup {ReducerExpression("sum", <<a>>) : a \in CallArguments}

InitCall ==
    /\ pc = "built"
    /\ input \in [transform : {TableSelectDesugaring(Source),
                               TableReduceDesugaring(Group)},
                  expression : CallExpressions]
    /\ output = NoOutput
    /\ substitutions = NoSubstitutions

DesugarCalls ==
    /\ pc = "built"
    /\ output' = eval_expression(input.transform, input.expression)
    /\ pc' = "desugared"
    /\ UNCHANGED <<input, substitutions>>

NextCall == DesugarCalls

SpecCall == InitCall /\ [][NextCall]_vars

(***************************************************************************)
(* Properties of inline-call desugaring, checked under SpecCall.          *)
(***************************************************************************)
ExpectedArgNames == <<"arg_0", "arg_1", "arg_2", "arg_3">>

RECURSIVE SumOps(_)
SumOps(rs) == IF rs = <<>> THEN 0 ELSE Len(Head(rs).ops) + SumOps(Tail(rs))

\* The arguments of the input expression rewritten one by one by transform.
RewrittenBy(transform) ==
    [i \in DOMAIN input.expression.args |->
        eval_expression(transform, input.expression.args[i])]

\* C9 for a ColumnCallExpression with n arguments: the result is a column
\* reference named result into the output relation of a row transformer of
\* arity n and of the call's inferred type, whose input relation is built
\* by one select (projection flavor) or reduce (aggregation flavor) on the
\* transform's relation binding the callee, as given, as method and the
\* i-th rewritten argument as arg_i, i = 0..n-1, and nothing else.
C9_CallShape ==
    (pc = "desugared" /\ input.expression.kind = "call") =>
        LET n == Len(input.expression.args)
            rewritten == RewrittenBy(input.transform)
            generated == output.out.table.generated_by
            invocation == generated.input.generated_by
        IN /\ output.out.kind = "ref"
           /\ output.out.name = "result"
           /\ generated.transformer.arity = n
           /\ generated.transformer.dtype = [dtype_of |-> input.expression]
           /\ invocation.op = IF input.transform.cls = "TableSelectDesugaring"
                              THEN "select" ELSE "reduce"
           /\ invocation.table_like = input.transform.table_like
           /\ DOMAIN invocation.kwargs =
                 {"method"} \cup {ExpectedArgNames[i] : i \in 1..n}
           /\ Cardinality(DOMAIN invocation.kwargs) = n + 1
           /\ invocation.kwargs["method"] = input.expression.col_expr
           /\ \A i \in 1..n :
                 invocation.kwargs[ExpectedArgNames[i]] = rewritten[i].out
           /\ Len(output.ops) = SumOps(rewritten) + 1
           /\ output.ops[Len(output.ops)] = invocation

\* C9 for a ReducerExpression under the aggregation flavor: the same
\* reducer over the arguments rewritten by the projection flavor on the
\* relation being grouped; every callback made on the way is a select on
\* that relation.
C9_ReducerShape ==
    (/\ pc = "desugared"
     /\ input.expression.kind = "reducer"
     /\ input.transform.cls = "TableReduceDesugaring") =>
        LET rewritten ==
                RewrittenBy([cls |-> "TableSelectDesugaring",
                             table_like |-> input.transform.table_like.joinable_to_group])
        IN /\ output.out.kind = "reducer"
           /\ output.out.reducer = input.expression.reducer
           /\ output.out.args = [i \in DOMAIN rewritten |-> rewritten[i].out]
           /\ \A k \in DOMAIN output.ops :
                 /\ output.ops[k].op = "select"
                 /\ output.ops[k].table_like = Source

\* C9: the shape of a desugared inline call and of a desugared reducer.
C9_InlineCallDesugaring == C9_CallShape /\ C9_ReducerShape

\* Reached: an aggregation-flavor call with two arguments, the first a
\* reducer over a nested inline call, which made one select on the grouped
\* relation's source and one reduce on the grouped relation.
C9_Witness ==
    /\ pc = "desugared"
    /\ input.transform.cls = "TableReduceDesugaring"
    /\ input.expression.kind = "call"
    /\ Len(input.expression.args) = 2
    /\ input.expression.args[1].kind = "reducer"
    /\ input.expression.args[1].args[1].kind = "call"
    /\ Len(output.ops) = 2
    /\ output.ops[1].op = "select"
    /\ output.ops[1].table_like = Source
    /\ output.ops[2].op = "reduce"
    /\ output.ops[2].table_like = Group
    /\ output.ops[2].kwargs["arg_0"].kind = "reducer"
    /\ output.ops[2].kwargs["arg_0"].args[1].name = "result"

(***************************************************************************)
(* Call interception: the wrapper that desugar builds around an           *)
(* operation.                                                             *)
(***************************************************************************)
A == Table("A")
B == Table("B")
J == Table("J")

\* isinstance(value, DesugaringContext): every relation handle is one.
IsDesugaringContext(value) == value.kind = "table"

NoContext == [kind |-> "none"]

\* Which dictionary a context's _substitution attribute is: J carries its
\* own, the others read the class attribute DesugaringContext._substitution.
SubstitutionOf(context) == IF context = J THEN "J" ELSE "class"

\* A context's _desugaring: J remaps references to A onto B, the others
\* compile inline calls by a select on themselves.
DesugaringOf(context) ==
    IF context = J
    THEN TableSubstitutionDesugaring(A :> B)
    ELSE TableSelectDesugaring(context)

\* The column names of a relation, in order.
Columns == <<"x", "c">>

\* A scope token passed as an argument of its own: *this (iter_guard) and
\* **this (a keyword whose name starts with KEY_GUARD).
IterGuard(token) == [kind |-> "this", token |-> token, guard |-> "iter"]
KeyGuard(token) == [kind |-> "this", token |-> token, guard |-> "key"]
KEY_GUARD == "KEY_GUARD"

\* An ordered dictionary as a sequence of <<key, value>> pairs.
Has(pairs, key) == \E i \in DOMAIN pairs : pairs[i][1] = key
Get(pairs, key) == pairs[CHOOSE i \in DOMAIN pairs : pairs[i][1] = key][2]

\* dict.update on a Python dictionary given as a function.
Update(d, other) ==
    [t \in DOMAIN d \cup DOMAIN other |-> IF t \in DOMAIN other THEN other[t] ELSE d[t]]

\* dict.update on an ordered dictionary: a key already there keeps its
\* place and takes the new value, a new key goes to the end.
RECURSIVE UpdatePairs(_, _)
UpdatePairs(pairs, items) ==
    IF items = <<>> THEN pairs
    ELSE LET key == Head(items)[1]
             next == IF Has(pairs, key)
                     THEN [i \in DOMAIN pairs |->
                              IF pairs[i][1] = key THEN Head(items) ELSE pairs[i]]
                     ELSE Append(pairs, Head(items))
         IN UpdatePairs(next, Tail(items))

Min(a, b) == IF a < b THEN a ELSE b

\* named_args = {**dict(zip(fn_spec.arg_names, args)), **kwargs}
NamedArgs(op, args, kwargs) ==
    LET k == Min(Len(op.arg_names), Len(args))
    IN UpdatePairs([i \in 1..k |-> <<op.arg_names[i], args[i]>>], kwargs)

\* A variant that takes the first DesugaringContext among the bound
\* arguments, wherever it stands.
desugaring_context_FirstContextAnywhere(named_args) ==
    IF \E i \in DOMAIN named_args : IsDesugaringContext(named_args[i][2])
    THEN named_args[CHOOSE i \in DOMAIN named_args :
                        /\ IsDesugaringContext(named_args[i][2])
                        /\ \A j \in 1..(i - 1) :
                              ~IsDesugaringContext(named_args[j][2])][2]
    ELSE NoContext

\* first_arg if isinstance(first_arg, DesugaringContext) else None
desugaring_context(named_args) ==
    IF IsDesugaringContext(named_args[1][2]) THEN named_args[1][2] ELSE NoContext

\* A variant of this_substitution = {} that works on the context's own
\* dictionary.
new_substitution_Aliased(context) ==
    IF context = NoContext THEN "local" ELSE SubstitutionOf(context)

\* this_substitution = {}: a dictionary of the call's own.
new_substitution(context) == "local"

\* this_substitution.update(desugaring_context._substitution)
inherit(heap, ref, context) ==
    IF context # NoContext
    THEN [heap EXCEPT ![ref] = Update(@, heap[SubstitutionOf(context)])]
    ELSE heap

\* for key, value in substitution_param.items():
\*     this_substitution[key] = named_args[value]
RECURSIVE bind(_, _, _, _)
bind(heap, ref, substitution_param, named_args) ==
    IF substitution_param = <<>> THEN [heap |-> heap, err |-> "none"]
    ELSE LET key == Head(substitution_param)[1]
             value == Head(substitution_param)[2]
         IN IF ~Has(named_args, value) THEN [heap |-> heap, err |-> "KeyError"]
            ELSE bind([heap EXCEPT ![ref] = (key :> Get(named_args, value)) @@ @],
                      ref, Tail(substitution_param), named_args)

\* A variant in which the context's bindings are applied last.
build_substitution_ContextWins(heap, ref, context, substitution_param, named_args) ==
    LET bound == bind(heap, ref, substitution_param, named_args)
    IN [heap |-> inherit(bound.heap, ref, context), err |-> bound.err]

\* Lines 289-295: the context's bindings first, then the declared ones.
build_substitution(heap, ref, context, substitution_param, named_args) ==
    bind(inherit(heap, ref, context), ref, substitution_param, named_args)

desugar_this_arg(substitution, expression) ==
    eval_expression(ThisDesugaring(substitution), expression)

\* ret.extend(evaled_table) / ret.append(...), then the rest of the loop.
Extended(items, rest) == [outs |-> items \o rest.outs, err |-> rest.err]
Failed(err) == [outs |-> <<>>, err |-> err]

\* ret.extend(evaled_table): the relation's column references, in order.
SpreadPositional(evaled_table, rest) ==
    IF evaled_table.err THEN Failed("UnresolvedThis")
    ELSE Extended([i \in DOMAIN Columns |->
                      ColumnReference(evaled_table.table, Columns[i])], rest)

\* ret.append(_desugar_this_arg(substitution, arg))
AppendResolved(r, rest) ==
    IF r.err THEN Failed("UnresolvedThis") ELSE Extended(<<r.out>>, rest)

RECURSIVE desugar_this_args(_, _)
desugar_this_args(substitution, args) ==
    IF args = <<>> THEN [outs |-> <<>>, err |-> "none"]
    ELSE IF IsThis(Head(args))
    THEN IF ~("guard" \in DOMAIN Head(args) /\ Head(args).guard = "iter")
         THEN Failed("AssertionError")
         ELSE SpreadPositional(eval_substitution(Head(args), substitution),
                               desugar_this_args(substitution, Tail(args)))
    ELSE AppendResolved(desugar_this_arg(substitution, Head(args)),
                        desugar_this_args(substitution, Tail(args)))

\* new_kwargs.update(evaled_table): the relation's columns by name.
SpreadKeywords(new_kwargs, evaled_table) ==
    UpdatePairs(new_kwargs,
        [i \in DOMAIN Columns |->
            <<Columns[i], ColumnReference(evaled_table.table, Columns[i])>>])

\* The second loop of _desugar_this_kwargs: each guarded keyword, in order,
\* updates new_kwargs with the columns of the relation its token stands for.
RECURSIVE SpreadGuards(_, _, _)
SpreadGuards(substitution, new_kwargs, guards) ==
    IF guards = <<>> THEN [kwargs |-> new_kwargs, err |-> "none"]
    ELSE IF ~IsThis(Head(guards)[2])
    THEN [kwargs |-> new_kwargs, err |-> "AssertionError"]
    ELSE IF eval_substitution(Head(guards)[2], substitution).err
    THEN [kwargs |-> new_kwargs, err |-> "UnresolvedThis"]
    ELSE SpreadGuards(substitution,
                      SpreadKeywords(new_kwargs,
                          eval_substitution(Head(guards)[2], substitution)),
                      Tail(guards))

\* One entry of the final dictionary comprehension, then the rest.
ResolvedEntry(name, r, rest) ==
    IF r.err THEN [kwargs |-> <<>>, err |-> "UnresolvedThis"]
    ELSE [kwargs |-> <<<<name, r.out>>>> \o rest.kwargs, err |-> rest.err]

RECURSIVE DesugarValues(_, _)
DesugarValues(substitution, kwargs) ==
    IF kwargs = <<>> THEN [kwargs |-> <<>>, err |-> "none"]
    ELSE ResolvedEntry(Head(kwargs)[1],
                       desugar_this_arg(substitution, Head(kwargs)[2]),
                       DesugarValues(substitution, Tail(kwargs)))

IsGuarded(entry) == entry[1] = KEY_GUARD
NotGuarded(entry) == entry[1] # KEY_GUARD

DesugarSpread(substitution, spread) ==
    IF spread.err # "none" THEN spread
    ELSE DesugarValues(substitution, spread.kwargs)

desugar_this_kwargs(substitution, kwargs) ==
    DesugarSpread(substitution,
                  SpreadGuards(substitution, SelectSeq(kwargs, NotGuarded),
                               SelectSeq(kwargs, IsGuarded)))

\* desugaring_context._desugaring.eval_expression over the arguments and
\* over the keyword values.
RewriteArgs(context, args) ==
    IF context = NoContext THEN args
    ELSE EvalAll(DesugaringOf(context), args).outs

RewriteKwargs(context, kwargs) ==
    IF context = NoContext THEN kwargs
    ELSE [i \in DOMAIN kwargs |->
            <<kwargs[i][1],
              eval_expression(DesugaringOf(context), kwargs[i][2]).out>>]

\* func(*args, **kwargs) binds: no parameter is given twice and none is
\* left without a value.
Binds(op, args, kwargs) ==
    /\ \A i \in 1..Min(Len(op.arg_names), Len(args)) :
          ~Has(kwargs, op.arg_names[i])
    /\ \A i \in (Min(Len(op.arg_names), Len(args)) + 1)..Len(op.arg_names) :
          Has(kwargs, op.arg_names[i])

Outcome(err, context, substitution, args, kwargs, heap) ==
    [err |-> err, desugaring_context |-> context,
     this_substitution |-> substitution,
     args |-> args, kwargs |-> kwargs, substitutions |-> heap]

\* The dictionaries that outlive the call.
Kept(heap) == [d \in DOMAIN heap \ {"local"} |-> heap[d]]

\* Line 308: return func(*args, **kwargs)
wrapper_call(op, context, this_substitution, heap, args, kwargs) ==
    Outcome(IF Binds(op, args, kwargs) THEN "none" ELSE "TypeError",
            context, this_substitution, args, kwargs, heap)

\* Lines 300-307: the context's rewriter over every argument.
wrapper_rewrite(op, context, this_substitution, heap, new_args, new_kwargs) ==
    IF new_args.err # "none"
    THEN Outcome(new_args.err, context, this_substitution, <<>>, <<>>, heap)
    ELSE IF new_kwargs.err # "none"
    THEN Outcome(new_kwargs.err, context, this_substitution, <<>>, <<>>, heap)
    ELSE wrapper_call(op, context, this_substitution, heap,
                      RewriteArgs(context, new_args.outs),
                      RewriteKwargs(context, new_kwargs.kwargs))

\* Lines 297-298: self-references resolved against this_substitution.
wrapper_resolve(op, args, kwargs, context, this_substitution, err, heap) ==
    IF err # "none"
    THEN Outcome(err, context, this_substitution, <<>>, <<>>, heap)
    ELSE wrapper_rewrite(op, context, this_substitution, heap,
                         desugar_this_args(this_substitution, args),
                         desugar_this_kwargs(this_substitution, kwargs))

\* Lines 289-295: this_substitution is built.
wrapper_bind(op, args, kwargs, context, ref, built) ==
    wrapper_resolve(op, args, kwargs, context, built.heap[ref], built.err,
                    Kept(built.heap))

\* Lines 284-287: the first bound argument decides the context.
wrapper_context(op, args, kwargs, dictionaries, named_args, context) ==
    wrapper_bind(op, args, kwargs, context, new_substitution(context),
                 build_substitution(("local" :> EmptyDict) @@ dictionaries,
                                    new_substitution(context), context,
                                    op.substitution, named_args))

\* Lines 282-283: the arguments are bound to the parameter names.
wrapper_named(op, args, kwargs, dictionaries, named_args) ==
    IF Len(named_args) = 0
    THEN Outcome("NoArguments", NoContext, EmptyDict, <<>>, <<>>, dictionaries)
    ELSE wrapper_context(op, args, kwargs, dictionaries, named_args,
                         desugaring_context(named_args))

\* The wrapper of desugar, from its entry to the call of func or to the
\* error that leaves it.
wrapper(op, args, kwargs, dictionaries) ==
    wrapper_named(op, args, kwargs, dictionaries, NamedArgs(op, args, kwargs))

(***************************************************************************)
(* The wrapped operations and the calls made on them.                     *)
(***************************************************************************)
Operation(arg_names, substitution) ==
    [arg_names |-> arg_names, substitution |-> substitution]

Operations ==
    {Operation(<<"self">>, <<>>),
     Operation(<<"self">>, <<<<"this", "self">>>>),
     Operation(<<"self", "other">>, <<<<"this", "self">>, <<"left", "other">>>>)}

ThisX == ColumnReference(This("this"), "x")
RoundThisX == MethodCallExpression("num.round", <<ThisX, ColumnConstExpression("1")>>)
PointerLeft == PointerExpression(This("left"), <<ThisX>>, TRUE)
CallThisX == ColumnCallExpression(ColumnReference(A, "f"), <<ThisX>>)

WrapperValues ==
    {A, J, ColumnReference(A, "x"), RoundThisX, PointerLeft, CallThisX,
     IterGuard("this")}

WrapperKeywords ==
    {<<"other", J>>, <<"self", A>>,
     <<"c", RoundThisX>>, <<"c", ColumnReference(This("left"), "x")>>,
     <<KEY_GUARD, KeyGuard("this")>>}

MaxWrapperArgs == 2
MaxWrapperKeywords == 2

WrapperArgs == {<<>>} \cup SeqsUpTo(WrapperValues, MaxWrapperArgs)
WrapperKwargs ==
    {kw \in {<<>>} \cup SeqsUpTo(WrapperKeywords, MaxWrapperKeywords) :
        \A i, j \in DOMAIN kw : i # j => kw[i][1] # kw[j][1]}

\* substitution: Dict[ThisMetaclass, Joinable]: a parameter an operation
\* binds a token to holds a relation whenever it is given.
WellTyped(op, args, kwargs) ==
    LET named_args == NamedArgs(op, args, kwargs)
    IN \A i \in DOMAIN op.substitution :
          Has(named_args, op.substitution[i][2])
              => IsDesugaringContext(Get(named_args, op.substitution[i][2]))

NoInput == [op |-> Operation(<<>>, <<>>), args |-> <<>>, kwargs |-> <<>>]
NoOutcome == Outcome("none", NoContext, EmptyDict, <<>>, <<>>, EmptyDict)

InitDesugar ==
    /\ pc = "idle"
    /\ input = NoInput
    /\ output = NoOutcome
    /\ substitutions \in
          {("class" :> EmptyDict) @@ ("J" :> m) :
              m \in {EmptyDict, "this" :> B, ("this" :> B) @@ ("left" :> A)}}

\* A call that reaches func(*args, **kwargs).
WrapperCallsFunc ==
    /\ pc = "idle"
    /\ \E op \in Operations, args \in WrapperArgs, kwargs \in WrapperKwargs :
          /\ WellTyped(op, args, kwargs)
          /\ \E r \in {wrapper(op, args, kwargs, substitutions)} :
                /\ r.err = "none"
                /\ input' = [op |-> op, args |-> args, kwargs |-> kwargs]
                /\ output' = [r EXCEPT !.substitutions = EmptyDict]
                /\ substitutions' = r.substitutions
    /\ pc' = "in_func"

\* A call that an error leaves before func is reached.
WrapperRaises ==
    /\ pc = "idle"
    /\ \E op \in Operations, args \in WrapperArgs, kwargs \in WrapperKwargs :
          /\ WellTyped(op, args, kwargs)
          /\ \E r \in {wrapper(op, args, kwargs, substitutions)} :
                /\ r.err # "none"
                /\ input' = [op |-> op, args |-> args, kwargs |-> kwargs]
                /\ output' = [r EXCEPT !.substitutions = EmptyDict]
                /\ substitutions' = r.substitutions
    /\ pc' = "raised"

\* func returns, or the error reaches the caller: the next call can start.
CallOver ==
    /\ pc \in {"in_func", "raised"}
    /\ pc' = "idle"
    /\ input' = NoInput
    /\ output' = NoOutcome
    /\ UNCHANGED substitutions

NextDesugar == WrapperCallsFunc \/ WrapperRaises \/ CallOver

SpecDesugar == InitDesugar /\ [][NextDesugar]_vars

(***************************************************************************)
(* Properties of call interception, checked under SpecDesugar.            *)
(***************************************************************************)
CallDone == pc \in {"in_func", "raised"}

BoundArgs == NamedArgs(input.op, input.args, input.kwargs)

DeclaredTokens(op) == {op.substitution[i][1] : i \in DOMAIN op.substitution}

DeclaredParameter(op, token) ==
    op.substitution[CHOOSE i \in DOMAIN op.substitution :
                        op.substitution[i][1] = token][2]

\* The active mapping of a context, read from the dictionaries.
ContextMapping(context) ==
    IF context = NoContext THEN EmptyDict
    ELSE substitutions[SubstitutionOf(context)]

\* The first bound argument when it is a DesugaringContext.
FirstIfContext ==
    IF IsDesugaringContext(BoundArgs[1][2]) THEN BoundArgs[1][2] ELSE NoContext

\* The first DesugaringContext among the bound arguments, in binding order.
FirstContextBound ==
    BoundArgs[CHOOSE i \in DOMAIN BoundArgs :
                  /\ IsDesugaringContext(BoundArgs[i][2])
                  /\ \A j \in 1..(i - 1) : ~IsDesugaringContext(BoundArgs[j][2])][2]

\* The mapping of context overridden by the operation's declared bindings.
OverriddenMapping(context) ==
    [t \in DOMAIN ContextMapping(context) \cup DeclaredTokens(input.op) |->
        IF t \in DeclaredTokens(input.op)
        THEN Get(BoundArgs, DeclaredParameter(input.op, t))
        ELSE ContextMapping(context)[t]]

\* The scope tokens a value refers to.
RECURSIVE TokensIn(_)
RECURSIVE TokensInAll(_)
TokensInAll(values) == UNION {TokensIn(values[i]) : i \in DOMAIN values}

TokensOfTable(table) ==
    IF table.kind = "this" THEN {table.token}
    ELSE IF "generated_by" \in DOMAIN table
    THEN LET kwargs == table.generated_by.input.generated_by.kwargs
         IN UNION {TokensIn(kwargs[n]) : n \in DOMAIN kwargs}
    ELSE {}

TokensIn(value) ==
    CASE value.kind = "this" -> {value.token}
      [] value.kind = "ref" -> TokensOfTable(value.table)
      [] value.kind = "pointer" ->
            TokensOfTable(value.table) \cup TokensInAll(value.args)
      [] value.kind = "call" ->
            TokensIn(value.col_expr) \cup TokensInAll(value.args)
      [] value.kind \in {"method_call", "reducer"} -> TokensInAll(value.args)
      [] value.kind = "ix" ->
            TokensIn(value.column_expression) \cup TokensIn(value.keys_expression)
      [] value.kind = "require" ->
            TokensIn(value.val) \cup TokensInAll(value.args)
      [] OTHER -> {}

\* Everything func was called with.
Forwarded ==
    {output.args[i] : i \in DOMAIN output.args}
    \cup {output.kwargs[i][2] : i \in DOMAIN output.kwargs}

\* Every argument of the call as the caller wrote it.
Written ==
    {input.args[i] : i \in DOMAIN input.args}
    \cup {input.kwargs[i][2] : i \in DOMAIN input.kwargs}

\* A keyword argument whose name is a column of the relation that a
\* keyword spread of the same call stands for.
ReplacedBySpread(i) ==
    /\ input.kwargs[i][1] # KEY_GUARD
    /\ \E k \in DOMAIN Columns : Columns[k] = input.kwargs[i][1]
    /\ Has(input.kwargs, KEY_GUARD)

\* The arguments that reach resolution.
Resolved ==
    {input.args[i] : i \in DOMAIN input.args}
    \cup {input.kwargs[i][2] : i \in {j \in DOMAIN input.kwargs : ~ReplacedBySpread(j)}}

\* The tokens the call's mapping binds.
MappedTokens ==
    DOMAIN ContextMapping(FirstIfContext) \cup DeclaredTokens(input.op)

UnboundIn(values) == \E v \in values : ~(TokensIn(v) \subseteq MappedTokens)

\* C1 as stated: func is called only with arguments free of scope tokens,
\* and a call with an argument that refers to a token without a binding in
\* the call's mapping raises instead of calling func.
C1_Original ==
    /\ pc = "in_func" => \A v \in Forwarded : TokensIn(v) = {}
    /\ (CallDone /\ Len(BoundArgs) > 0 /\ UnboundIn(Written)) => pc = "raised"

\* C1, the part the code keeps: func is called only with arguments free of
\* scope tokens, and a token without a binding raises when it stands in an
\* argument that reaches resolution: a positional argument, a spread, or a
\* keyword argument that no keyword spread of the call replaces. A keyword
\* argument that a spread replaces is dropped as written.
C1_PlaceholdersResolved ==
    /\ pc = "in_func" =>
          /\ \A v \in Forwarded : TokensIn(v) = {}
          /\ \A i \in DOMAIN input.kwargs :
                (TokensIn(input.kwargs[i][2]) # {} /\ input.kwargs[i][1] # KEY_GUARD)
                    => Get(output.kwargs, input.kwargs[i][1]) # input.kwargs[i][2]
    /\ (CallDone /\ Len(BoundArgs) > 0 /\ UnboundIn(Resolved)) => pc = "raised"

\* Reached: the operation that binds this to self, called on A with
\* round(this.x, 1), is called with round(A.x, 1).
C1_Witness ==
    /\ pc = "in_func"
    /\ input.args = <<A, RoundThisX>>
    /\ input.kwargs = <<>>
    /\ output.this_substitution = ("this" :> A)
    /\ output.args =
          <<A, MethodCallExpression("num.round",
                   <<ColumnReference(A, "x"), ColumnConstExpression("1")>>)>>

\* What func gets when context's rewriter is run over the arguments
\* resolved against this_substitution.
RewrittenBy_(context) ==
    LET resolved == desugar_this_args(output.this_substitution, input.args).outs
    IN IF context = NoContext THEN resolved
       ELSE [i \in DOMAIN resolved |->
                eval_expression(DesugaringOf(context), resolved[i]).out]

Inherits(context) ==
    \A t \in DOMAIN ContextMapping(context) \ DeclaredTokens(input.op) :
        /\ t \in DOMAIN output.this_substitution
        /\ output.this_substitution[t] = ContextMapping(context)[t]

\* C7 as stated: whenever some bound argument is a DesugaringContext, the
\* first such argument in binding order is the rewriting context: its
\* mapping is inherited and its rewriter is run over every argument.
C7_Original ==
    (/\ CallDone
     /\ \E i \in DOMAIN BoundArgs : IsDesugaringContext(BoundArgs[i][2]))
        => /\ output.desugaring_context = FirstContextBound
           /\ output.err # "KeyError" => Inherits(FirstContextBound)
           /\ pc = "in_func" => output.args = RewrittenBy_(FirstContextBound)

\* C7 amended: the rewriting context is the first bound argument (in
\* binding order: positional arguments bound to the declared parameter
\* names, then keyword arguments) when that argument is a
\* DesugaringContext: its mapping is inherited and its rewriter is run over
\* every argument. When the first bound argument is not one, the call has
\* no rewriting context: nothing is inherited and no rewriter is run, also
\* when a later bound argument is a DesugaringContext.
C7_FirstBoundArgument ==
    (CallDone /\ Len(BoundArgs) > 0) =>
        /\ output.desugaring_context = FirstIfContext
        /\ output.err # "KeyError" => Inherits(FirstIfContext)
        /\ pc = "in_func" => output.args = RewrittenBy_(FirstIfContext)
        /\ (FirstIfContext = NoContext /\ output.err # "KeyError")
              => DOMAIN output.this_substitution = DeclaredTokens(input.op)

\* Reached: A.x first and J second, J remapping A onto B: func gets A.x as
\* written, not B.x.
C7_Witness ==
    /\ pc = "in_func"
    /\ input.args = <<ColumnReference(A, "x"), J>>
    /\ substitutions["J"] = ("this" :> B)
    /\ output.desugaring_context = NoContext
    /\ output.this_substitution = EmptyDict
    /\ output.args = <<ColumnReference(A, "x"), J>>

\* C8: the mapping a call resolves against is the context's mapping
\* overridden by the operation's declared bindings, each declared token
\* bound to the call's own argument of the declared name; with no context
\* and no declaration it is empty.
C8_ScopeMapping ==
    (CallDone /\ output.err \notin {"NoArguments", "KeyError"}) =>
        /\ output.this_substitution = OverriddenMapping(output.desugaring_context)
        /\ \A t \in DeclaredTokens(input.op) :
              output.this_substitution[t] =
                  Get(BoundArgs, DeclaredParameter(input.op, t))
        /\ (output.desugaring_context = NoContext /\ input.op.substitution = <<>>)
              => output.this_substitution = EmptyDict

\* Reached: J carries this and left; the operation declares this only: the
\* call's mapping binds this to J itself and keeps J's binding of left.
C8_Witness ==
    /\ pc = "in_func"
    /\ output.desugaring_context = J
    /\ substitutions["J"] = ("this" :> B) @@ ("left" :> A)
    /\ DeclaredTokens(input.op) = {"this"}
    /\ output.this_substitution = ("this" :> J) @@ ("left" :> A)

\* C10: no step changes a dictionary that outlives the call, the
\* class-level default included; and the mapping of a call binds only the
\* tokens its operation declares and those its context carries.
C10_ScopeFrame ==
    [][/\ substitutions' = substitutions
       /\ pc' \in {"in_func", "raised"} =>
             DOMAIN output'.this_substitution \subseteq
                 DeclaredTokens(input'.op)
                 \cup (IF output'.desugaring_context = NoContext THEN {}
                       ELSE DOMAIN substitutions[
                                SubstitutionOf(output'.desugaring_context)])]_vars

\* Reached: a call that binds this on A, whose mapping is the class-level
\* default, with the default still empty.
C10_Witness ==
    /\ pc = "in_func"
    /\ output.desugaring_context = A
    /\ "this" \in DeclaredTokens(input.op)
    /\ output.this_substitution["this"] = A
    /\ substitutions["class"] = EmptyDict

====
